---------------------------- MODULE Spec2Model ----------------------------
(***************************************************************************)
(* Frame differ of the terminal video player: compute_diff_buffer of       *)
(* diff_buffer.pyx.  The function is pure; the state machine draws the     *)
(* arguments of one call in Init and the action Call applies the function. *)
(*                                                                         *)
(* Colour channels and the colour threshold are integers in units of       *)
(* 0.025, so the default threshold 0.05 is 2 and a full channel (1.0) is   *)
(* 40.                                                                     *)
(* Python's 0-based index i of a list is index i + 1 of the sequence.      *)
(***************************************************************************)
EXTENDS Integers, Sequences, FiniteSets, TLC

VARIABLES self_buffer, other_buffer, term_width, term_height,
          color_threshold, render_outside_bounds, diff_buffer, pc

vars == <<self_buffer, other_buffer, term_width, term_height,
          color_threshold, render_outside_bounds, diff_buffer, pc>>

---------------------------------------------------------------------------
(* Bounds of the drawn arguments.                                          *)
MaxRows == 2
MaxCells == 3
MaxDim == 2
MaxTol == 3

(* color_threshold=0.05, in units of 0.025.                                *)
DefaultThreshold == 2

---------------------------------------------------------------------------
(* The cell model the function reads and constructs.                       *)

\* Python's None: an empty slot of a row.
None == [none |-> TRUE]

\* Color(r, g, b)
Color(r, g, b) == [r |-> r, g |-> g, b |-> b]

\* Position(x, y)
Position(x, y) == <<x, y>>

\* Pixel(char, color, position)
Pixel(char, color, position) ==
    [char |-> char, color |-> color, position |-> position]

\* color.to_tuple_rgb()
to_tuple_rgb(color) == <<color.r, color.g, color.b>>

---------------------------------------------------------------------------
(* compute_diff_buffer, line by line.                                      *)

Max(a, b) == IF a >= b THEN a ELSE b

\* threshold_squared = color_threshold * color_threshold
threshold_squared_of(threshold) == threshold * threshold

\* max_height = max(len(self_buffer), len(other_buffer))
max_height_of(self_b, other_b) == Max(Len(self_b), Len(other_b))

\* buffer[y] if y < len(buffer) else []
row_at(buffer, y) == IF y < Len(buffer) THEN buffer[y + 1] ELSE <<>>

\* Variant: the width of the scan taken from the first row alone.
max_width_self_only(self_row, other_row) == Len(self_row)

\* max_width = max(len(self_row), len(other_row))
max_width_of(self_row, other_row) == Max(Len(self_row), Len(other_row))

\* row[x] if x < len(row) else None
pixel_at(row, x) == IF x < Len(row) THEN row[x + 1] ELSE None

\* Variant: the row at the viewport's height is still scanned.
skip_row_inclusive(y, height, outside) == y > height /\ ~outside

\* if y >= term_height and not render_outside_bounds: continue
skip_row(y, height, outside) == y >= height /\ ~outside

\* Variant: the column at the viewport's width is still scanned.
skip_column_inclusive(x, width, outside) == x > width /\ ~outside

\* if x >= term_width and not render_outside_bounds: continue
skip_column(x, width, outside) == x >= width /\ ~outside

\* Variant: the channels added instead of subtracted.
distance_squared_added(self_pixel, other_pixel) ==
    LET c1 == to_tuple_rgb(self_pixel.color)
        c2 == to_tuple_rgb(other_pixel.color)
    IN  (c1[1] + c2[1]) * (c1[1] + c2[1])
      + (c1[2] + c2[2]) * (c1[2] + c2[2])
      + (c1[3] + c2[3]) * (c1[3] + c2[3])

\* distance_squared = (r1 - r2)**2 + (g1 - g2)**2 + (b1 - b2)**2
distance_squared_of(self_pixel, other_pixel) ==
    LET c1 == to_tuple_rgb(self_pixel.color)
        c2 == to_tuple_rgb(other_pixel.color)
    IN  (c1[1] - c2[1]) * (c1[1] - c2[1])
      + (c1[2] - c2[2]) * (c1[2] - c2[2])
      + (c1[3] - c2[3]) * (c1[3] - c2[3])

\* Variant: the characters are not compared.
needs_update_ignoring_char(self_pixel, other_pixel, threshold_squared) ==
    IF (self_pixel = None) # (other_pixel = None)
    THEN TRUE
    ELSE IF self_pixel # None /\ other_pixel # None
         THEN distance_squared_of(self_pixel, other_pixel) >= threshold_squared
         ELSE FALSE

\* Variant: an update whenever either cell is absent.
needs_update_either_absent(self_pixel, other_pixel, threshold_squared) ==
    IF (self_pixel = None) \/ (other_pixel = None)
    THEN TRUE
    ELSE IF self_pixel.char # other_pixel.char
         THEN TRUE
         ELSE distance_squared_of(self_pixel, other_pixel) >= threshold_squared

\* Variant: a distance equal to the threshold is no change.
needs_update_strict(self_pixel, other_pixel, threshold_squared) ==
    IF (self_pixel = None) # (other_pixel = None)
    THEN TRUE
    ELSE IF self_pixel # None /\ other_pixel # None
         THEN IF self_pixel.char # other_pixel.char
              THEN TRUE
              ELSE distance_squared_of(self_pixel, other_pixel)
                       > threshold_squared
         ELSE FALSE

\* the needs_update decision of one position
needs_update_of(self_pixel, other_pixel, threshold_squared) ==
    IF (self_pixel = None) # (other_pixel = None)
    THEN TRUE
    ELSE IF self_pixel # None /\ other_pixel # None
         THEN IF self_pixel.char # other_pixel.char
              THEN TRUE
              ELSE distance_squared_of(self_pixel, other_pixel)
                       >= threshold_squared
         ELSE FALSE

\* Variant: the blank pixel positioned at (y, x).
pixel_to_draw_transposed(self_pixel, x, y) ==
    IF self_pixel # None
    THEN self_pixel
    ELSE Pixel(" ", Color(0, 0, 0), Position(y, x))

\* pixel_to_draw = self_pixel if self_pixel is not None else Pixel(' ', ...)
pixel_to_draw_of(self_pixel, x, y) ==
    IF self_pixel # None
    THEN self_pixel
    ELSE Pixel(" ", Color(0, 0, 0), Position(x, y))

\* Variant: the entry inserted at the front of the list.
RECURSIVE scan_columns_prepend(_, _, _, _, _, _, _, _)
scan_columns_prepend(self_row, other_row, y, x, width, outside, threshold_squared, acc) ==
    IF x >= max_width_of(self_row, other_row)
    THEN acc
    ELSE IF skip_column(x, width, outside)
         THEN scan_columns_prepend(self_row, other_row, y, x + 1, width, outside,
                                   threshold_squared, acc)
         ELSE LET self_pixel == pixel_at(self_row, x)
                  other_pixel == pixel_at(other_row, x)
              IN  scan_columns_prepend(self_row, other_row, y, x + 1, width, outside,
                      threshold_squared,
                      IF needs_update_of(self_pixel, other_pixel, threshold_squared)
                      THEN <<<<<<x, y>>, pixel_to_draw_of(self_pixel, x, y)>>>> \o acc
                      ELSE acc)

\* for x in range(max_width): ... diff_buffer.append(((x, y), pixel_to_draw))
RECURSIVE scan_columns(_, _, _, _, _, _, _, _)
scan_columns(self_row, other_row, y, x, width, outside, threshold_squared, acc) ==
    IF x >= max_width_of(self_row, other_row)
    THEN acc
    ELSE IF skip_column(x, width, outside)
         THEN scan_columns(self_row, other_row, y, x + 1, width, outside,
                           threshold_squared, acc)
         ELSE LET self_pixel == pixel_at(self_row, x)
                  other_pixel == pixel_at(other_row, x)
              IN  scan_columns(self_row, other_row, y, x + 1, width, outside,
                      threshold_squared,
                      IF needs_update_of(self_pixel, other_pixel, threshold_squared)
                      THEN Append(acc, <<<<x, y>>, pixel_to_draw_of(self_pixel, x, y)>>)
                      ELSE acc)

\* for y in range(max_height): ...
RECURSIVE scan_rows(_, _, _, _, _, _, _, _)
scan_rows(self_b, other_b, y, width, height, outside, threshold_squared, acc) ==
    IF y >= max_height_of(self_b, other_b)
    THEN acc
    ELSE IF skip_row(y, height, outside)
         THEN scan_rows(self_b, other_b, y + 1, width, height, outside,
                        threshold_squared, acc)
         ELSE scan_rows(self_b, other_b, y + 1, width, height, outside,
                        threshold_squared,
                        scan_columns(row_at(self_b, y), row_at(other_b, y), y, 0,
                                     width, outside, threshold_squared, acc))

\* compute_diff_buffer(self_buffer, other_buffer, term_width, term_height,
\*                     color_threshold, render_outside_bounds)
compute_diff_buffer(self_b, other_b, width, height, threshold, outside) ==
    scan_rows(self_b, other_b, 0, width, height, outside,
              threshold_squared_of(threshold), <<>>)

---------------------------------------------------------------------------
(* The arguments drawn for a call.                                         *)

Red == Color(40, 0, 0)
Blue == Color(0, 0, 40)
Black == Color(0, 0, 0)
\* at distance 1 from Red: below the default threshold
NearRed == Color(40, 1, 0)
\* at distance exactly 2 (the default threshold) from Red
EdgeRed == Color(40, 0, 2)
\* at distance exactly 3 from Red, over all three channels
OffRed == Color(38, 1, 2)

\* The contents a slot of a row can hold: None, or a character and a colour.
Paint(char, color) == [char |-> char, color |-> color]
Palette == << Paint("A", Red), Paint("A", NearRed), Paint("B", Red), None,
              Paint("A", EdgeRed), Paint(" ", Black), Paint("A", Blue),
              Paint("A", OffRed) >>

SlotOf(paint, x, y) ==
    IF paint = None THEN None ELSE Pixel(paint.char, paint.color, Position(x, y))

RECURSIVE SumSeq(_)
SumSeq(s) == IF s = <<>> THEN 0 ELSE Head(s) + SumSeq(Tail(s))

\* Row lengths of a frame: at most MaxRows rows, at most MaxCells slots in all.
Shapes ==
    { s \in UNION { [1..n -> 0..MaxCells] : n \in 0..MaxRows } :
        SumSeq(s) <= MaxCells }

\* The frame of shape s whose slot (x, y) holds Palette entry x + 2y + k.
Frame(s, k) ==
    [ y1 \in 1..Len(s) |->
        [ x1 \in 1..s[y1] |->
            SlotOf(Palette[((x1 - 1 + 2 * (y1 - 1) + k) % Len(Palette)) + 1],
                   x1 - 1, y1 - 1) ] ]

\* A frame of one row holding one slot.
OneSlot(paint) == << << SlotOf(paint, 0, 0) >> >>

\* A frame empty but for one pixel at (x, y): rows 0..y, row y of x + 1 slots.
Lone(paint, x, y) ==
    [ y1 \in 1..(y + 1) |->
        IF y1 <= y THEN <<>>
        ELSE [ x1 \in 1..(x + 1) |->
                 IF x1 <= x THEN None ELSE SlotOf(paint, x, y) ] ]

\* A frame of the given row lengths filled with one paint.
Filled(s, paint) ==
    [ y1 \in 1..Len(s) |-> [ x1 \in 1..s[y1] |-> SlotOf(paint, x1 - 1, y1 - 1) ] ]

\* The arguments of the call are these.
Arguments(s, o, w, h, t, r) ==
    /\ self_buffer = s
    /\ other_buffer = o
    /\ term_width = w
    /\ term_height = h
    /\ color_threshold = t
    /\ render_outside_bounds = r

\* Frames of every shape, filled alike or one palette entry apart, the
\* viewport and the clipping flag varied.
ShapeCalls ==
    \E s1 \in Shapes, s2 \in Shapes, k1 \in 0..1, k2 \in 0..1,
       w \in 0..MaxDim, h \in 0..MaxDim, r \in BOOLEAN :
        /\ k1 + k2 <= 1
        /\ Arguments(Frame(s1, k1), Frame(s2, k2), w, h, DefaultThreshold, r)

\* One slot against one slot, every content against every content, the
\* threshold varied.
PixelCalls ==
    \E i1 \in 1..Len(Palette), i2 \in 1..Len(Palette),
       w \in -1..MaxDim, h \in -1..MaxDim, t \in -1..MaxTol, r \in BOOLEAN :
        Arguments(OneSlot(Palette[i1]), OneSlot(Palette[i2]), w, h, t, r)

\* The scenarios the documentation of the differ names, in both orders of
\* the two frames.
RedA == OneSlot(Paint("A", Red))
BlueA == OneSlot(Paint("A", Blue))
ScenarioFrames ==
    { <<RedA, BlueA, 80, 24>>,
      <<RedA, <<>>, 80, 24>>,
      <<Filled(<<3, 0, 5>>, Paint("A", Red)), Filled(<<5>>, Paint("A", Red)), 80, 24>>,
      <<Lone(Paint("A", Red), 10, 10), <<>>, 5, 5>> }
ScenarioCalls ==
    \E c \in ScenarioFrames, r \in BOOLEAN :
        \/ Arguments(c[1], c[2], c[3], c[4], DefaultThreshold, r)
        \/ Arguments(c[2], c[1], c[3], c[4], DefaultThreshold, r)

---------------------------------------------------------------------------
(* The state machine: one call of compute_diff_buffer.                     *)

Init ==
    /\ ShapeCalls \/ PixelCalls \/ ScenarioCalls
    /\ diff_buffer = <<>>
    /\ pc = "call"

\* The call runs to its return statement; no statement of it raises.
Call ==
    /\ pc = "call"
    /\ diff_buffer' = compute_diff_buffer(self_buffer, other_buffer, term_width,
                          term_height, color_threshold, render_outside_bounds)
    /\ pc' = "returned"
    /\ UNCHANGED <<self_buffer, other_buffer, term_width, term_height,
                   color_threshold, render_outside_bounds>>

Next == Call

Spec == Init /\ [][Next]_vars

---------------------------------------------------------------------------
(* Vocabulary of the properties, stated on the frames themselves.          *)

Returned == pc = "returned"

\* The cell a frame holds at (x, y); None where the row index is beyond the
\* frame, the column is beyond the row, or the slot holds None.
CellOf(frame, x, y) ==
    IF y >= Len(frame) THEN None
    ELSE IF x >= Len(frame[y + 1]) THEN None
         ELSE frame[y + 1][x + 1]

RowLen(frame, y) == IF y < Len(frame) THEN Len(frame[y + 1]) ELSE 0

UnionHeight == IF Len(self_buffer) >= Len(other_buffer)
               THEN Len(self_buffer) ELSE Len(other_buffer)

UnionWidth(y) == IF RowLen(self_buffer, y) >= RowLen(other_buffer, y)
                 THEN RowLen(self_buffer, y) ELSE RowLen(other_buffer, y)

\* Every position of the union extent of the two frames.
Extent == UNION { { <<x, y>> : x \in 0..(UnionWidth(y) - 1) } :
                    y \in 0..(UnionHeight - 1) }

\* The rectangle around the extent, one column and one row beyond it.
Widest == CHOOSE w \in { UnionWidth(y) : y \in 0..UnionHeight } :
              \A y \in 0..UnionHeight : UnionWidth(y) <= w
Around == (0..Widest) \X (0..UnionHeight)

InViewport(p) == p[1] < term_width /\ p[2] < term_height

InExtent(p) == p[2] < UnionHeight /\ p[1] < UnionWidth(p[2])

Scanned(p) == InExtent(p) /\ (render_outside_bounds \/ InViewport(p))

Dist2(c1, c2) ==
    (c1.r - c2.r) * (c1.r - c2.r) + (c1.g - c2.g) * (c1.g - c2.g)
      + (c1.b - c2.b) * (c1.b - c2.b)

\* The two frames differ at p: one cell is absent, or the characters differ,
\* or the squared colour distance reaches the squared threshold.
Changed(p) ==
    LET a == CellOf(self_buffer, p[1], p[2])
        b == CellOf(other_buffer, p[1], p[2])
    IN  IF a = None \/ b = None
        THEN (a = None) # (b = None)
        ELSE a.char # b.char
               \/ Dist2(a.color, b.color) >= color_threshold * color_threshold

PositionsOf(updates) == { updates[i][1] : i \in 1..Len(updates) }

HasEntry(p) == p \in PositionsOf(diff_buffer)

Blank(p) == [char |-> " ", color |-> [r |-> 0, g |-> 0, b |-> 0], position |-> p]

IsBlank(cell) == cell # None /\ cell.char = " " /\ cell.color = [r |-> 0, g |-> 0, b |-> 0]

\* A display showing a frame, and the display after a renderer has
\* overwritten it with the entries of an update list, in order.
Showing(frame) == [ p \in Around |-> CellOf(frame, p[1], p[2]) ]

RECURSIVE Painted(_, _)
Painted(display, updates) ==
    IF updates = <<>> THEN display
    ELSE Painted([display EXCEPT ![Head(updates)[1]] = Head(updates)[2]],
                 Tail(updates))

\* What the display shows at p is what the frame `target` asks for there.
ShowsAt(display, target, p, strict) ==
    LET want == CellOf(target, p[1], p[2])
        shown == display[p]
    IN  IF want = None
        THEN shown = None \/ IsBlank(shown)
        ELSE /\ shown # None
             /\ shown.char = want.char
             /\ \/ Dist2(shown.color, want.color) < color_threshold * color_threshold
                \/ (~strict /\ shown = want)

PermittedArguments == term_width >= 0 /\ term_height >= 0 /\ color_threshold >= 0

---------------------------------------------------------------------------
---------------------------------------------------------------------------
BlueAtOrigin == Pixel("A", Blue, Position(0, 0))

---------------------------------------------------------------------------
(* C3: the call returns for frames of any shapes, and a position of the    *)
(* scanned region has an entry exactly when one of the two cells is absent *)
(* and the other present, or both are present and their characters differ  *)
(* or their squared colour distance is at least the squared threshold; a   *)
(* position absent in both frames never has an entry.                      *)
C3_EntryIffChanged ==
    /\ pc \in {"call", "returned"}
    /\ Returned =>
         LET flagged == PositionsOf(diff_buffer)
         IN  \A p \in Around :
                /\ Scanned(p) => (p \in flagged <=> Changed(p))
                /\ (CellOf(self_buffer, p[1], p[2]) = None
                      /\ CellOf(other_buffer, p[1], p[2]) = None) => p \notin flagged

\* Rows of lengths 3, 0, 5 diffed against one row of length 5: two cells
\* of row 0 disappear and the five cells of row 2 appear.
C3_Witness ==
    /\ Returned
    /\ Len(self_buffer) = 3 /\ Len(other_buffer) = 1
    /\ Len(self_buffer[1]) = 3 /\ Len(self_buffer[2]) = 0
    /\ Len(self_buffer[3]) = 5 /\ Len(other_buffer[1]) = 5
    /\ Len(diff_buffer) = 7

---------------------------------------------------------------------------
(* C4, as stated: a frame diffed against itself gives the empty update     *)
(* list for any non-negative viewport, either value of the clipping flag   *)
(* and any non-negative threshold, 0 included.                             *)
C4_IdentityAnyThreshold ==
    (Returned /\ self_buffer = other_buffer /\ PermittedArguments) =>
        diff_buffer = <<>>

(* C4, amended: a frame diffed against itself gives the empty update list  *)
(* for any non-negative viewport, either value of the clipping flag and    *)
(* any threshold greater than 0 whose square is greater than 0 (the        *)
(* default 0.05, not 0: at 0 every present cell is at squared distance     *)
(* 0 >= 0 of itself).                                                      *)
C4_IdentityPositiveThreshold ==
    (Returned /\ self_buffer = other_buffer /\ PermittedArguments
       /\ color_threshold > 0 /\ color_threshold * color_threshold > 0) =>
        diff_buffer = <<>>

\* A jagged frame with a pixel inside the viewport diffed against itself.
C4_Witness ==
    /\ Returned /\ self_buffer = other_buffer /\ PermittedArguments
    /\ color_threshold > 0
    /\ Len(self_buffer) = 2 /\ Len(self_buffer[1]) # Len(self_buffer[2])
    /\ \E p \in Extent : InViewport(p) /\ CellOf(self_buffer, p[1], p[2]) # None

---------------------------------------------------------------------------
(* C5: a call with a negative viewport width, viewport height or colour    *)
(* threshold does not return an update list.                               *)
C5_NegativeArgumentsRejected ==
    (term_width < 0 \/ term_height < 0 \/ color_threshold < 0) => ~Returned

---------------------------------------------------------------------------
(* C6: for two present cells of the same character at a position inside    *)
(* the viewport, there is an entry when the squared distance of their      *)
(* colours equals or exceeds the squared threshold and none when it is     *)
(* smaller.                                                                *)
C6_ToleranceBoundary ==
    Returned =>
        \A p \in Extent :
            LET a == CellOf(self_buffer, p[1], p[2])
                b == CellOf(other_buffer, p[1], p[2])
            IN  (InViewport(p) /\ a # None /\ b # None /\ a.char = b.char) =>
                   /\ Dist2(a.color, b.color) = color_threshold * color_threshold
                        => HasEntry(p)
                   /\ Dist2(a.color, b.color) > color_threshold * color_threshold
                        => HasEntry(p)
                   /\ Dist2(a.color, b.color) < color_threshold * color_threshold
                        => ~HasEntry(p)

\* Two colours at a distance exactly equal to a positive threshold, over
\* all three channels, reported as changed.
C6_Witness ==
    /\ Returned /\ color_threshold > 0
    /\ \E p \in Extent :
         LET a == CellOf(self_buffer, p[1], p[2])
             b == CellOf(other_buffer, p[1], p[2])
         IN  /\ InViewport(p) /\ a # None /\ b # None /\ a.char = b.char
             /\ a.color.r # b.color.r /\ a.color.g # b.color.g
             /\ a.color.b # b.color.b
             /\ Dist2(a.color, b.color) = color_threshold * color_threshold
             /\ HasEntry(p)

---------------------------------------------------------------------------
(* C7: without render_outside_bounds every entry lies inside the viewport  *)
(* (so a viewport of width 0 or height 0 gives the empty list); with it,   *)
(* every changed position of the union extent of the two frames has an     *)
(* entry whatever the viewport; content at (10,10) under a 5x5 viewport    *)
(* has no entry in the first case and one in the second.                   *)
C7_BoundsClipping ==
    Returned =>
        /\ ~render_outside_bounds =>
             /\ \A i \in 1..Len(diff_buffer) : InViewport(diff_buffer[i][1])
             /\ (term_width = 0 \/ term_height = 0) => diff_buffer = <<>>
        /\ render_outside_bounds =>
             \A p \in Extent : Changed(p) => HasEntry(p)
        /\ (term_width = 5 /\ term_height = 5
              /\ (CellOf(self_buffer, 10, 10) = None)
                    # (CellOf(other_buffer, 10, 10) = None)) =>
             (HasEntry(<<10, 10>>) <=> render_outside_bounds)

\* A clipped call that returns entries while changed cells lie beyond the
\* viewport's width and beyond its height.
C7_Witness ==
    /\ Returned /\ ~render_outside_bounds /\ diff_buffer # <<>>
    /\ \E p \in Extent : Changed(p) /\ p[1] >= term_width /\ p[2] < term_height
    /\ \E p \in Extent : Changed(p) /\ p[2] >= term_height /\ p[1] < term_width

---------------------------------------------------------------------------
(* C8: the positions that have an entry in the diff of two frames are the  *)
(* positions that have an entry in the diff of the same frames swapped,    *)
(* under the same viewport, threshold and clipping flag.                   *)
C8_SymmetricDetection ==
    Returned =>
        PositionsOf(diff_buffer) =
            PositionsOf(compute_diff_buffer(other_buffer, self_buffer,
                term_width, term_height, color_threshold, render_outside_bounds))

\* Swapped frames flag the same positions with different cells: one cell
\* appears, one disappears.
C8_Witness ==
    /\ Returned
    /\ diff_buffer # compute_diff_buffer(other_buffer, self_buffer,
            term_width, term_height, color_threshold, render_outside_bounds)
    /\ \E p \in Extent :
         HasEntry(p) /\ CellOf(self_buffer, p[1], p[2]) = None
    /\ \E p \in Extent :
         HasEntry(p) /\ CellOf(other_buffer, p[1], p[2]) = None

---------------------------------------------------------------------------
RowMajorBefore(p, q) == p[2] < q[2] \/ (p[2] = q[2] /\ p[1] < q[1])

(* C9: the positions of the returned list are strictly increasing in       *)
(* row-major order (increasing y, then increasing x), so no position has   *)
(* two entries.                                                            *)
C9_RowMajorOrder ==
    Returned =>
        /\ \A i \in 1..(Len(diff_buffer) - 1) :
             RowMajorBefore(diff_buffer[i][1], diff_buffer[i + 1][1])
        /\ Cardinality(PositionsOf(diff_buffer)) = Len(diff_buffer)

\* A list with two entries in one row followed by an entry in a later row
\* at a smaller column.
C9_Witness ==
    /\ Returned
    /\ \E i \in 1..(Len(diff_buffer) - 2) :
         /\ diff_buffer[i][1][2] = diff_buffer[i + 1][1][2]
         /\ diff_buffer[i + 1][1][2] < diff_buffer[i + 2][1][2]
         /\ diff_buffer[i + 1][1][1] > diff_buffer[i + 2][1][1]

---------------------------------------------------------------------------
EntryInViewport(entry) == InViewport(entry[1])

(* C10: the list returned without render_outside_bounds is the list        *)
(* returned with it, restricted in the same order and with the same cells  *)
(* to the entries inside the viewport; and it is the list of the viewport  *)
(* one column wider and one row higher, restricted in the same way.        *)
C10_ClippingIsFilter ==
    (Returned /\ ~render_outside_bounds) =>
        /\ diff_buffer =
             SelectSeq(compute_diff_buffer(self_buffer, other_buffer, term_width,
                           term_height, color_threshold, TRUE),
                       EntryInViewport)
        /\ diff_buffer =
             SelectSeq(compute_diff_buffer(self_buffer, other_buffer,
                           term_width + 1, term_height + 1, color_threshold, FALSE),
                       EntryInViewport)

\* A clipped list that keeps some entries of the unclipped list, drops
\* others, and grows when the viewport does.
C10_Witness ==
    /\ Returned /\ ~render_outside_bounds /\ diff_buffer # <<>>
    /\ term_width >= 0 /\ term_height >= 0
    /\ Len(compute_diff_buffer(self_buffer, other_buffer, term_width,
               term_height, color_threshold, TRUE)) > Len(diff_buffer) + 1
    /\ Len(compute_diff_buffer(self_buffer, other_buffer, term_width + 1,
               term_height + 1, color_threshold, FALSE)) > Len(diff_buffer)

=============================================================================
